---- MODULE Spec2Model ----
(***************************************************************************)
(* Model of the embedded process supervisor of falkordblite-ts:            *)
(*   ServerManager (server-manager.ts, src/unnamed/part_005 lines 117-439) *)
(*   cleanup registry (cleanup.ts, src/unnamed/part_006 lines 239-305)     *)
(*   FalkorDB open/close (falkordb.ts, src/unnamed/part_006 lines 1-236)   *)
(*   BinaryManager.resolveRedisServer and downloadFile                     *)
(*   (src/src/binary-manager.ts).                                          *)
(*                                                                         *)
(* One ServerManager instance is modelled together with the child          *)
(* processes it spawns, the files it touches and the process-wide cleanup  *)
(* registry.  Every action is one turn of the Node event loop: a callback  *)
(* together with the promise continuations (microtasks) it makes runnable. *)
(* Time is abstract: a timer may fire at any turn after it was armed.      *)
(*                                                                         *)
(* Scope of the caller: start() calls on the supervisor do not overlap     *)
(* each other (a new start() is issued only after the previous one has     *)
(* settled); stop() calls may overlap each other and a running start().    *)
(***************************************************************************)
EXTENDS Integers, FiniteSets, Sequences, TLC

\* Number of start() calls the caller makes (each spawns one child).
MaxSpawns == 2
\* Number of stop() calls of the caller that may be in flight at once.
MaxStops == 2
\* Number of arguments of a command, and of characters of an argument.
MaxArgs == 2
MaxLen == 4
\* Number of redirecting servers in front of the one that has the file.
MaxServers == 7

\* binary-manager.ts:17
MAX_REDIRECTS == 5

Children == 1..MaxSpawns
\* Slot 0 is the stop() call made by the registry's signal handler.
CallerStops == 1..MaxStops
Stops == 0..MaxStops

VARIABLES
  optConfigPath,     \* options.configPath is given (part_005:133)
  sockFile,          \* what is at options.socketPath: <<kind, owner>>
  cfgFiles,          \* the config files that exist: set of <<kind, attempt>>
  process,           \* this.process: 0 = undefined, else the child (part_005:143)
  configFilePath,    \* this.configFilePath (part_005:144)
  ownsConfigFile,    \* this.ownsConfigFile (part_005:145)
  nStarts,           \* start() calls made so far
  startPc,           \* per start() call: where it is
  startErr,          \* per start() call: the error it rejects with
  ready,             \* per start() call: the readiness poller (waitForReady)
  reply,             \* per start() call: the last data its ping in flight
                     \* received ("none", "PONG", "OTHER")
  deadline,          \* per start() call: Date.now() > deadline
  child,             \* per child: what the operating system knows of it
  exitCode,          \* per child: ChildProcess.exitCode
  signalCode,        \* per child: ChildProcess.signalCode
  stopPc,            \* per stop() call: where it is
  stopOn,            \* per stop() call: the child its waitForExit listens to
  stopSave,          \* per stop() call: the argument it was called with and
                     \* the command it has pending
  stopRung,          \* per stop() call: the last step of the ladder it took
  stopCtx,           \* per stop() call (history): how it lies to the start() calls
  quietStop,         \* (history) a stop() that overlapped no start() has returned
                     \* and start() was not called since
  removedFile,       \* (history) the latest start() call removed a file at
                     \* the socket path
  activeServers,     \* cleanup.ts activeServers (part_006:242)
  handlersRegistered,\* cleanup.ts handlersRegistered (part_006:244)
  installs,          \* how many times the body of ensureHandlers installed
                     \* the listeners on the process object
  caught,            \* the signal signalHandler was called with
  raised,            \* the signal signalHandler sent to its own process
  thrown,            \* the error the 'uncaughtException' listener threw
  peer,              \* a second ServerManager, with a socket path of its own:
                     \* [pc, child, exitCode, sock, cfg, swept]
  db,                \* FalkorDB.open() and the instance it makes:
                     \* [pc, path, ownsTempDir, dataDir, client, err]
  closePc,           \* per FalkorDB.close() call: where it is
  bm,                \* BinaryManager: what resolveRedisServer() finds and
                     \* what it gives
  parent,            \* the parent (Node) process
  attempted,         \* children the registry's handlers tried to terminate
  stderr,            \* per child: the text start()'s 'data' listener on
                     \* child.stderr has collected (part_005:181-186)
  args,              \* the arguments of a round trip: a sequence of strings,
                     \* a string being a sequence of characters
  written,           \* the bytes the round trip has written to its socket
  dl                 \* downloadFile (binary-manager.ts:287-348): the chain of
                     \* responses the servers give, and where the download is

vars == <<optConfigPath, sockFile, cfgFiles, process, configFilePath,
          ownsConfigFile, nStarts, startPc, startErr, ready, reply, deadline,
          child,
          exitCode, signalCode, stopPc, stopOn, stopSave, stopRung,
          stopCtx, quietStop, removedFile, activeServers, handlersRegistered,
          installs, caught, raised, thrown, peer, db, closePc, bm, parent,
          attempted, stderr, args, written, dl>>

\* The FalkorDB instance and the BinaryManager.
dbVars == <<db, closePc, bm>>
\* The options, and what only the steps of a scenario of its own change.
optVars == <<optConfigPath, stderr, args, written, dl>>
\* What no step of the first ServerManager touches.
apartVars == <<optVars, peer, dbVars>>
fsVars == <<sockFile, cfgFiles>>
smVars == <<process, configFilePath, ownsConfigFile>>
startVars == <<nStarts, startPc, startErr, ready, reply, deadline>>
childVars == <<child, exitCode, signalCode>>
stopVars == <<stopPc, stopOn, stopSave, stopRung, stopCtx, quietStop>>
\* What the signal and exception listeners of the registry record.
sigVars == <<caught, raised, thrown>>
regVars == <<activeServers, handlersRegistered, installs, parent, attempted,
             sigVars>>

\* The ServerManager instance, as a member of activeServers.
Self == "server"
\* The second ServerManager instance, as a member of activeServers.
Peer == "peer"

Absent == <<"absent", 0>>
Stale == <<"stale", 0>>
BoundBy(c) == <<"socket", c>>
UndefinedPath == <<"undefined", 0>>
CallerPath == <<"caller", 0>>
TmpPath(a) == <<"tmp", a>>

\* The parent process runs its event loop.
ParentLive == parent \in {"running", "sweeping"}

Alive(c) == child[c] \in {"alive", "listening"}
Dead(c) == child[c] \in {"code0", "code1", "signal"}
\* The parent has not yet run the child's onexit callback.
Undelivered(c) == exitCode[c] = "null" /\ signalCode[c] = "null"

\* No command of stop() is pending.
NoCommand == [arg |-> "none", cmd |-> <<>>]

----------------------------------------------------------------------------
(* Queries *)

\* isRunning(): this.process !== undefined && this.process.exitCode === null
IsRunning == process # 0 /\ exitCode[process] = "null"

\* ChildProcess.pid is set by a successful spawn and never cleared.
PidOf(c) == IF child[c] \in {"none", "spawnfail"} THEN 0 ELSE c

\* getPid(): this.process?.pid   (0 stands for undefined)
GetPid == IF process = 0 THEN 0 ELSE PidOf(process)

\* isRunning() of the second instance.
PeerIsRunning == peer.child # "none" /\ peer.exitCode = "null"

\* The pid of its child: the operating system gives a new process a pid that
\* no live or unreaped process has.
PeerPid == MaxSpawns + 1

----------------------------------------------------------------------------
\* FalkorDB.open() has not been called; path is options.path.
DbIdle(path) ==
  [pc |-> "idle", path |-> path, ownsTempDir |-> FALSE, dataDir |-> "absent",
   client |-> "none", err |-> "none"]

\* A BinaryManager whose resolveRedisServer() has not been called.  user is
\* options.redisServerPath ("undefined", "empty" for '', or a path that is
\* "present" or "missing"); platformOk: detectPlatform() does not throw;
\* local, npm: the file exists in bin/<platform> resp. in the platform
\* package; pkg: the platform package is installed; system: which finds one.
BmIdle(user, platformOk, local, pkg, npm, system) ==
  [user |-> user, platformOk |-> platformOk, local |-> local, pkg |-> pkg,
   npm |-> npm, system |-> system, result |-> "none"]

\* The state after construction of the ServerManager and load of cleanup.ts.
InitServer ==
  /\ optConfigPath \in BOOLEAN
  /\ sockFile \in {Absent, Stale}
  /\ cfgFiles = {}
  /\ process = 0
  /\ configFilePath = UndefinedPath
  /\ ownsConfigFile = FALSE
  /\ nStarts = 0
  /\ startPc = [a \in Children |-> "idle"]
  /\ startErr = [a \in Children |-> "none"]
  /\ ready = [a \in Children |-> "off"]
  /\ reply = [a \in Children |-> "none"]
  /\ deadline = [a \in Children |-> FALSE]
  /\ child = [c \in Children |-> "none"]
  /\ exitCode = [c \in Children |-> "null"]
  /\ signalCode = [c \in Children |-> "null"]
  /\ stopPc = [i \in Stops |-> "idle"]
  /\ stopOn = [i \in Stops |-> 0]
  /\ stopSave = [i \in Stops |-> NoCommand]
  /\ stopRung = [i \in Stops |-> "none"]
  /\ stopCtx = [i \in Stops |-> "none"]
  /\ quietStop = FALSE
  /\ removedFile = FALSE
  /\ activeServers = {}
  /\ handlersRegistered = FALSE
  /\ installs = 0
  /\ caught = "none"
  /\ raised = "none"
  /\ thrown = "none"
  /\ peer = [pc |-> "idle", child |-> "none", exitCode |-> "null",
             sock |-> FALSE, cfg |-> FALSE, swept |-> "no"]
  /\ parent = "running"
  /\ attempted = {}
  /\ closePc = [k \in CallerStops |-> "idle"]
  /\ stderr = [c \in Children |-> ""]

\* downloadFile has not been called; servers is the number of redirecting
\* servers in front of the last one, each answering with statusCode redirect
\* and a location header; the last one answers with statusCode last and no
\* location header.
NoDownload(servers, redirect, last) ==
  [servers |-> servers, redirect |-> redirect, last |-> last, at |-> 0,
   redirectsLeft |-> 0, pc |-> "idle", result |-> "none"]

\* No round trip is looked at byte by byte, and nothing is downloaded.
IoIdle == args = <<>> /\ written = <<>> /\ dl = NoDownload(0, 302, 200)

\* The ServerManager on its own: no FalkorDB instance, no resolution.
Init ==
  /\ IoIdle
  /\ InitServer
  /\ db = DbIdle("omitted")
  /\ bm = BmIdle("undefined", TRUE, TRUE, TRUE, TRUE, TRUE)

----------------------------------------------------------------------------
(* Helpers shared by start() and stop() *)

CleanupUnlinksConfigAlways == configFilePath # UndefinedPath

\* cleanupFiles: the owned config file is unlinked only under this test.
CleanupUnlinksConfig == configFilePath # UndefinedPath /\ ownsConfigFile

CleanupUnlinkResultNoCatch(exists) == IF exists THEN "ok" ELSE "throws"

\* cleanupFiles: each unlink sits in a try/catch that swallows the error
\* (ENOENT when the file is already gone).
CleanupUnlinkResult(exists) == "ok"

\* Where a caller of cleanupFiles() is after the synchronous part of the call.
\* The config unlink takes effect when it is issued (the path is read then);
\* the socket unlink takes effect when it completes.  The wait for the first
\* unlink changes nothing another task can see, so the two awaits of
\* cleanupFiles() are one state, "cleanup".
CleanupPc ==
  IF CleanupUnlinksConfig
       /\ CleanupUnlinkResult(configFilePath \in cfgFiles) = "throws"
    THEN "rejected" ELSE "cleanup"

CfgAfterCleanup ==
  IF CleanupUnlinksConfig THEN cfgFiles \ {configFilePath} ELSE cfgFiles

KillTargetNone(ec) == 0

\* killProcess(): SIGKILL to this.process when its exitCode is still null.
\* ec is the exitCode table at the time of the call; 0 = nothing is killed.
KillTarget(ec) == IF process # 0 /\ ec[process] = "null" THEN process ELSE 0

ChildAfterKillNoop(ch, t) == ch

\* SIGKILL ends a live process at once; the parent learns of it later.
ChildAfterKill(ch, t) ==
  IF t # 0 /\ ch[t] \in {"alive", "listening"}
    THEN [ch EXCEPT ![t] = "signal"] ELSE ch

\* The 'exit' listener of earlyExit: which rejection, if any, it makes.
EarlyExitError(code, sig) ==
  IF code # "null" /\ code # "0" THEN "exited"
  ELSE IF sig # "null" THEN "killed"
  ELSE "none"

\* The messages of earlyExit: what they carry of the collected stderr text.
\* 'redis-server exited with code ... .\nstderr: ${stderr}' has the text;
\* 'redis-server was killed by signal ... .' has no such part.
MessageStderr(err, captured) == IF err = "exited" THEN captured ELSE "absent"

PingResolvesOnAny(response) == TRUE

\* The 'data' listener of ping(): resolves only on a response with +PONG.
PingResolves(response) == response = "PONG"

ExistsSyncNever(file) == FALSE

\* existsSync(this.options.socketPath): any kind of file counts.
ExistsSync(file) == file # Absent

\* start(): await unlink(socketPath) is not guarded: ENOENT propagates.
StartUnlinkThrows(exists) == ~exists

UnregisterServerClears == {}

UnregisterServerKeeps == activeServers

\* unregisterServer(this): activeServers.delete(server).
UnregisterServer == activeServers \ {Self}

EnsureHandlersUnguarded ==
  /\ handlersRegistered' = TRUE
  /\ installs' = installs + 1

\* ensureHandlers(): returns at once when handlersRegistered is set; else sets
\* it and installs the four listeners ('exit', SIGINT, SIGTERM,
\* 'uncaughtException').
EnsureHandlers ==
  IF handlersRegistered
    THEN UNCHANGED <<handlersRegistered, installs>>
    ELSE /\ handlersRegistered' = TRUE
         /\ installs' = installs + 1

\* registerServer(server): add to the set, then ensureHandlers().
RegisterServer ==
  /\ activeServers' = activeServers \cup {Self}
  /\ EnsureHandlers

----------------------------------------------------------------------------
(* start() *)

StartSettled(a) == startPc[a] \in {"idle", "resolved", "rejected"}

\* stop() call i has been made and has not settled.
StopInFlight(i) == stopPc[i] \notin {"idle", "done", "rejected"}

\* The code after the stale-socket removal up to the next await.
AfterUnlink(a) ==
  IF optConfigPath
    THEN /\ configFilePath' = CallerPath
         /\ startPc' = [startPc EXCEPT ![a] = "writing"]
    ELSE /\ configFilePath' = configFilePath
         /\ startPc' = [startPc EXCEPT ![a] = "mkdtemp"]

\* start() is called: existsSync(socketPath), then the first await.
\* limit bounds the number of start() calls of the scenario.
StartCall(limit) ==
  /\ ParentLive
  /\ nStarts < limit
  /\ \A a \in Children : StartSettled(a)
  /\ nStarts' = nStarts + 1
  /\ IF ExistsSync(sockFile)
       THEN /\ startPc' = [startPc EXCEPT ![nStarts + 1] = "unlinking"]
            /\ configFilePath' = configFilePath
       ELSE AfterUnlink(nStarts + 1)
  /\ stopCtx' = [i \in Stops |-> IF StopInFlight(i) THEN "mixed" ELSE stopCtx[i]]
  /\ quietStop' = FALSE
  /\ removedFile' = FALSE
  /\ UNCHANGED <<reply, apartVars, fsVars, process, ownsConfigFile, startErr,
                 ready, deadline, childVars, stopPc, stopOn, stopSave,
                 stopRung, regVars>>

\* await unlink(socketPath) completes.
StartUnlinked(a) ==
  /\ ParentLive
  /\ startPc[a] = "unlinking"
  /\ IF StartUnlinkThrows(sockFile # Absent)
       THEN /\ startPc' = [startPc EXCEPT ![a] = "rejected"]
            /\ startErr' = [startErr EXCEPT ![a] = "ENOENT"]
            /\ UNCHANGED <<sockFile, configFilePath, removedFile>>
       ELSE /\ sockFile' = Absent
            /\ removedFile' = TRUE
            /\ startErr' = startErr
            /\ AfterUnlink(a)
  /\ UNCHANGED <<reply, apartVars, cfgFiles, process, ownsConfigFile, nStarts,
                 ready, deadline, childVars, stopVars, regVars>>

\* await mkdtemp(...) completes.
StartMkdtemp(a) ==
  /\ ParentLive
  /\ startPc[a] = "mkdtemp"
  /\ configFilePath' = TmpPath(a)
  /\ startPc' = [startPc EXCEPT ![a] = "writing"]
  /\ UNCHANGED <<reply, apartVars, removedFile, fsVars, process, ownsConfigFile,
                 nStarts,
                 startErr, ready, deadline, childVars, stopVars, regVars>>

SpawnErrorIgnored == "none"

\* The 'error' listener of earlyExit rejects with 'Failed to spawn ...'.
SpawnError == "spawn"

\* await writeFile(...) completes; spawn; this.process = child; the listeners
\* of earlyExit are attached; waitForReady makes its first attempt (a ping).
\* A spawn that fails (ENOENT, EACCES) is reported on the next tick, before
\* any other event: the child's exitCode becomes the negative errno and
\* 'error' is emitted, in the turn of the spawn.  earlyExit rejects, the race
\* is lost and start()'s catch block runs up to its await: killProcess() finds
\* a non-null exitCode, cleanupFiles() unlinks the config file just written
\* if it is owned.
StartWritten(a) ==
  /\ ParentLive
  /\ startPc[a] = "writing"
  /\ ownsConfigFile' = ~optConfigPath
  /\ process' = a
  /\ ready' = [ready EXCEPT ![a] = "probing"]
  /\ \E spawnOk \in BOOLEAN :
       IF spawnOk
         THEN /\ child' = [child EXCEPT ![a] = "alive"]
              /\ cfgFiles' = cfgFiles \cup {configFilePath}
              /\ startPc' = [startPc EXCEPT ![a] = "racing"]
              /\ UNCHANGED <<exitCode, startErr>>
         ELSE /\ child' = [child EXCEPT ![a] = "spawnfail"]
              /\ exitCode' = [exitCode EXCEPT ![a] = "neg"]
              /\ IF SpawnError = "none"
                   THEN /\ cfgFiles' = cfgFiles \cup {configFilePath}
                        /\ startPc' = [startPc EXCEPT ![a] = "racing"]
                        /\ startErr' = startErr
                   ELSE /\ cfgFiles' = IF optConfigPath
                                         THEN cfgFiles \cup {configFilePath}
                                         ELSE cfgFiles \ {configFilePath}
                        /\ startPc' = [startPc EXCEPT ![a] = "cleanup"]
                        /\ startErr' = [startErr EXCEPT ![a] = SpawnError]
  /\ UNCHANGED <<reply, apartVars, removedFile, sockFile, configFilePath, nStarts,
                 deadline, signalCode, stopVars, regVars>>

StartAfterCatchRetries == "writing"

\* start(): the catch block ends with throw err.
StartAfterCatch == "rejected"

\* cleanupFiles() of start()'s catch block completes (the socket unlink);
\* the catch block rethrows: start() rejects.
StartCleanupDone(a) ==
  /\ ParentLive
  /\ startPc[a] = "cleanup"
  /\ sockFile' = Absent
  /\ startPc' = [startPc EXCEPT ![a] = StartAfterCatch]
  /\ startErr' = [startErr EXCEPT ![a] =
       IF CleanupUnlinkResult(sockFile # Absent) = "throws"
         THEN "ENOENT" ELSE startErr[a]]
  /\ UNCHANGED <<reply, apartVars, removedFile, cfgFiles, smVars, nStarts,
                 ready, deadline,
                 childVars, stopVars, regVars>>

----------------------------------------------------------------------------
(* The child processes and the events they cause in the parent *)

\* What start() does when the race rejects: the catch block up to its await.
\* ec is the exitCode table when the catch block runs.
StartFails(a, err, ec) ==
  /\ startErr' = [startErr EXCEPT ![a] = err]
  /\ startPc' = [startPc EXCEPT ![a] = CleanupPc]
  /\ child' = ChildAfterKill(child, KillTarget(ec))

\* The child binds its unix socket (redis unlinks the path, then binds).
ChildListen(c) ==
  /\ ParentLive
  /\ child[c] = "alive"
  /\ child' = [child EXCEPT ![c] = "listening"]
  /\ sockFile' = BoundBy(c)
  /\ UNCHANGED <<apartVars, removedFile, cfgFiles, smVars, startVars,
                 exitCode,
                 signalCode, stopVars, regVars>>

\* The child ends on its own account: exit status 0 (after SHUTDOWN or a
\* handled SIGTERM), a non-zero status, or death by a signal.
ChildExit(c) ==
  /\ ParentLive
  /\ Alive(c)
  /\ \E how \in {"code0", "code1", "signal"} :
       child' = [child EXCEPT ![c] = how]
  /\ UNCHANGED <<apartVars, removedFile, fsVars, smVars, startVars,
                 exitCode,
                 signalCode, stopVars, regVars>>

\* The exit status as the ChildProcess object records it: a signal death
\* leaves exitCode null.
CodeOf(c) ==
  CASE child[c] = "code0" -> "0"
    [] child[c] = "code1" -> "1"
    [] OTHER -> "null"

SignalOf(c) == IF child[c] = "signal" THEN "SIG" ELSE "null"

Waiting(i) == stopPc[i] \in {"wait5000", "wait3000", "wait2000"}

\* The parent runs the child's onexit callback: the status is recorded and
\* 'exit' is emitted.  Listeners: earlyExit of the start() that spawned the
\* child, and the once('exit') of every waitForExit pending on it.  Their
\* continuations run in the same turn.
ChildEvent(c) ==
  /\ ParentLive
  /\ Dead(c)
  /\ Undelivered(c)
  /\ LET ec == [exitCode EXCEPT ![c] = CodeOf(c)]
         err == EarlyExitError(CodeOf(c), SignalOf(c))
         fails == startPc[c] = "racing" /\ err # "none"
         woken == {i \in Stops : Waiting(i) /\ stopOn[i] = c}
     IN /\ exitCode' = ec
        /\ signalCode' = [signalCode EXCEPT ![c] = SignalOf(c)]
        /\ IF fails THEN StartFails(c, err, ec)
                    ELSE UNCHANGED <<startErr, startPc, child>>
        /\ stopPc' = [i \in Stops |-> IF i \in woken THEN CleanupPc ELSE stopPc[i]]
        /\ stopOn' = [i \in Stops |-> IF i \in woken THEN 0 ELSE stopOn[i]]
        /\ cfgFiles' = IF fails \/ woken # {} THEN CfgAfterCleanup ELSE cfgFiles
  /\ UNCHANGED <<reply, apartVars, removedFile, sockFile, smVars, nStarts,
                 ready, deadline,
                 stopSave, stopRung, stopCtx, quietStop, regVars>>

\* The child has written to its stderr and the 'data' listener of start()
\* adds the chunk to the text (stdio is piped: inheritStdio is not set).
\* The pipe outlives the child: a chunk may be read after 'exit'.
StderrData(c) ==
  /\ ParentLive
  /\ child[c] \notin {"none", "spawnfail"}
  /\ stderr[c] = ""
  /\ stderr' = [stderr EXCEPT ![c] = "E"]
  /\ UNCHANGED <<optConfigPath, args, written, dl, peer, dbVars, removedFile,
                 fsVars, smVars, startVars, childVars, stopVars, regVars>>

----------------------------------------------------------------------------
(* The readiness poller: waitForReady and ping *)

\* Some live child listens at options.socketPath.
ServerAtSocket == \E c \in Children : sockFile = BoundBy(c) /\ child[c] = "listening"

\* waitForReady resolves; if the race is still open, start() goes on past the
\* await: registerServer(this), and start() resolves.
ReadyResolves(a) ==
  /\ ready' = [ready EXCEPT ![a] = "resolved"]
  /\ IF startPc[a] = "racing"
       THEN /\ startPc' = [startPc EXCEPT ![a] = "resolved"]
            /\ RegisterServer
       ELSE UNCHANGED <<startPc, activeServers, handlersRegistered, installs>>

\* ping(): a live server at the socket answers and the 'data' listener runs.
\* The answer and its reading are one step: what the child wrote before it
\* ended is read before its exit is reported.  With +PONG the ping resolves;
\* other data is ignored.
PingData(a) ==
  /\ ParentLive
  /\ ready[a] = "probing"
  /\ ServerAtSocket
  /\ \E response \in {"PONG", "OTHER"} :
       /\ reply' = [reply EXCEPT ![a] = response]
       /\ IF PingResolves(response)
            THEN ReadyResolves(a)
            ELSE UNCHANGED <<ready, startPc, activeServers, handlersRegistered,
                             installs>>
  /\ UNCHANGED <<apartVars, removedFile, fsVars, smVars, nStarts,
                 startErr, deadline,
                 childVars, stopVars, parent, attempted, sigVars>>

AfterPingFailsResolve == "resolved"

AfterPingFailsRaise == "rejected"

\* waitForReady: the catch of a rejected ping arms setTimeout(attempt, pollMs).
AfterPingFails == "sleeping"

\* ping(): 'error' (nothing listens, connection reset) or the 1 000 ms socket
\* timeout: the ping rejects.  What waitForReady makes of the rejection is
\* AfterPingFails: the poller resolves, rejects with the error of the ping
\* (and start()'s catch block runs if the race is open), or sleeps.
PingFail(a) ==
  /\ ParentLive
  /\ ready[a] = "probing"
  /\ IF AfterPingFails = "resolved"
       THEN /\ ReadyResolves(a)
            /\ UNCHANGED <<startErr, child, cfgFiles>>
     ELSE IF AfterPingFails = "rejected"
       THEN /\ ready' = [ready EXCEPT ![a] = "rejected"]
            /\ IF startPc[a] = "racing"
                 THEN /\ StartFails(a, "probe", exitCode)
                      /\ cfgFiles' = CfgAfterCleanup
                 ELSE UNCHANGED <<startErr, startPc, child, cfgFiles>>
            /\ UNCHANGED <<activeServers, handlersRegistered, installs>>
     ELSE /\ ready' = [ready EXCEPT ![a] = AfterPingFails]
          /\ UNCHANGED <<startPc, activeServers, handlersRegistered,
                         installs, startErr, child, cfgFiles>>
  /\ reply' = [reply EXCEPT ![a] = "none"]
  /\ UNCHANGED <<apartVars, removedFile, sockFile, smVars, nStarts,
                 deadline, exitCode, signalCode, stopVars, parent, attempted,
                 sigVars>>

\* ping(): the server closes the connection without a +PONG.  ping() has no
\* 'end'/'close' listener and the closed socket's timeout is cleared, so the
\* ping promise stays pending for ever.
PingClosed(a) ==
  /\ ParentLive
  /\ ready[a] = "probing"
  /\ ServerAtSocket
  /\ ready' = [ready EXCEPT ![a] = "hung"]
  /\ reply' = [reply EXCEPT ![a] = "none"]
  /\ UNCHANGED <<apartVars, removedFile, fsVars, smVars, nStarts,
                 startPc, startErr,
                 deadline, childVars, stopVars, regVars>>

\* The clock passes the deadline of waitForReady.
DeadlinePass(a) ==
  /\ ParentLive
  /\ ready[a] \in {"probing", "sleeping", "hung"}
  /\ ~deadline[a]
  /\ deadline' = [deadline EXCEPT ![a] = TRUE]
  /\ UNCHANGED <<reply, apartVars, removedFile, fsVars, smVars, nStarts,
                 startPc, startErr,
                 ready, childVars, stopVars, regVars>>

\* setTimeout(attempt, pollMs) fires: attempt() rejects past the deadline,
\* else pings again.  A rejection that wins the race runs start()'s catch.
PollTimer(a) ==
  /\ ParentLive
  /\ ready[a] = "sleeping"
  /\ IF deadline[a]
       THEN /\ ready' = [ready EXCEPT ![a] = "rejected"]
            /\ IF startPc[a] = "racing"
                 THEN /\ StartFails(a, "timeout", exitCode)
                      /\ cfgFiles' = CfgAfterCleanup
                 ELSE UNCHANGED <<startErr, startPc, child, cfgFiles>>
       ELSE /\ ready' = [ready EXCEPT ![a] = "probing"]
            /\ UNCHANGED <<startErr, startPc, child, cfgFiles>>
  /\ UNCHANGED <<reply, apartVars, removedFile, sockFile, smVars, nStarts,
                 deadline, exitCode,
                 signalCode, stopVars, regVars>>

----------------------------------------------------------------------------
(* The requests of ping and sendCommand, as bytes *)

\* socket.write(string) and Buffer.byteLength(string) take the string as
\* UTF-8: one byte for an ASCII character, three for U+20AC (the euro sign).
RECURSIVE Utf8Encode(_)
Utf8Encode(str) ==
  IF str = <<>> THEN <<>>
  ELSE (IF Head(str) = "U+20AC" THEN <<"E2", "82", "AC">>
                               ELSE <<Head(str)>>) \o Utf8Encode(Tail(str))

ByteLengthAsLength(str) == Len(str)

\* Buffer.byteLength(arg)
ByteLength(str) == Len(Utf8Encode(str))

\* `${n}`: a number in a template literal, in decimal digits.
RECURSIVE Decimal(_)
Decimal(n) ==
  LET digit == <<"0", "1", "2", "3", "4", "5", "6", "7", "8", "9">>[(n % 10) + 1]
  IN IF n < 10 THEN <<digit>> ELSE Decimal(n \div 10) \o <<digit>>

\* sendCommand(...args), the 'connect' listener: parts starts as
\* [`*${args.length}\r\n`], one part is pushed for each argument, and
\* parts.join('') is the string written.
SendCommandRequest(as) ==
  LET parts[i \in 0..Len(as)] ==
        IF i = 0 THEN <<"*">> \o Decimal(Len(as)) \o <<"\r", "\n">>
        ELSE parts[i - 1] \o <<"$">> \o Decimal(ByteLength(as[i]))
                         \o <<"\r", "\n">> \o as[i] \o <<"\r", "\n">>
  IN parts[Len(as)]

\* ping(), the 'connect' listener: the string literal it writes.
PingRequest ==
  <<"*", "1", "\r", "\n", "$", "4", "\r", "\n", "P", "I", "N", "G", "\r", "\n">>

\* The socket of a sendCommand(...args) connects: the request is written.
SendCommandConnect ==
  /\ written = <<>>
  /\ written' = Utf8Encode(SendCommandRequest(args))
  /\ UNCHANGED <<optConfigPath, stderr, args, dl, peer, dbVars, removedFile,
                 fsVars, smVars, startVars, childVars, stopVars, regVars>>

\* The socket of a ping() connects: the round trip is that of the command
\* PING, and the literal is written.
PingConnect ==
  /\ written = <<>>
  /\ args' = << <<"P", "I", "N", "G">> >>
  /\ written' = Utf8Encode(PingRequest)
  /\ UNCHANGED <<optConfigPath, stderr, dl, peer, dbVars, removedFile,
                 fsVars, smVars, startVars, childVars, stopVars, regVars>>

----------------------------------------------------------------------------
(* downloadFile (binary-manager.ts) *)

\* downloadFile(url, destPath, redirectsLeft) up to its request: at is the
\* place of url in the chain.  A rejection of the inner call rejects the
\* outer ones in the same turn (.then(resolve, reject)).
DownloadFile(d, at, redirectsLeft) ==
  IF redirectsLeft <= 0
    THEN [d EXCEPT !.pc = "rejected", !.redirectsLeft = redirectsLeft,
                   !.result = "Too many HTTP redirects"]
    ELSE [d EXCEPT !.pc = "get", !.at = at, !.redirectsLeft = redirectsLeft]

\* The caller (ensureFalkorDBModule) calls downloadFile(url, targetPath).
DownloadCall ==
  /\ dl.pc = "idle"
  /\ dl' = DownloadFile(dl, 0, MAX_REDIRECTS)
  /\ UNCHANGED <<optConfigPath, stderr, args, written, peer, dbVars,
                 removedFile, fsVars, smVars, startVars, childVars, stopVars,
                 regVars>>

\* The response callback of get(url, ...): a redirect with a location is
\* followed by a recursive call, another status than 200 rejects, and with
\* 200 the body is piped to the file.
DownloadResponse ==
  /\ dl.pc = "get"
  /\ LET statusCode == IF dl.at < dl.servers THEN dl.redirect ELSE dl.last
         location == dl.at < dl.servers
     IN dl' = IF statusCode \in {301, 302, 307, 308} /\ location
                THEN DownloadFile(dl, dl.at + 1, dl.redirectsLeft - 1)
              ELSE IF statusCode # 200
                THEN [dl EXCEPT !.pc = "rejected", !.result = "HTTP"]
              ELSE [dl EXCEPT !.pc = "piping"]
  /\ UNCHANGED <<optConfigPath, stderr, args, written, peer, dbVars,
                 removedFile, fsVars, smVars, startVars, childVars, stopVars,
                 regVars>>

\* file.on('finish'): the file is closed and downloadFile resolves.
DownloadFinish ==
  /\ dl.pc = "piping"
  /\ dl' = [dl EXCEPT !.pc = "resolved", !.result = "downloaded"]
  /\ UNCHANGED <<optConfigPath, stderr, args, written, peer, dbVars,
                 removedFile, fsVars, smVars, startVars, childVars, stopVars,
                 regVars>>

\* req.on('error') or file.on('error'): the partial file is unlinked and
\* downloadFile rejects with the error.
DownloadError ==
  /\ dl.pc \in {"get", "piping"}
  /\ dl' = [dl EXCEPT !.pc = "rejected", !.result = "error"]
  /\ UNCHANGED <<optConfigPath, stderr, args, written, peer, dbVars,
                 removedFile, fsVars, smVars, startVars, childVars, stopVars,
                 regVars>>

----------------------------------------------------------------------------
(* stop() *)

\* The first test of stop() and of waitForExit(): nothing to wait for.
NoLiveHandle == process = 0 \/ exitCode[process] # "null"

CommandThrowsOnReject(outcome) == outcome = "rejected"

\* stop(): the try/catch around sendCommand swallows its rejection.
CommandThrows(outcome) == FALSE

\* stop(save = false): the value of the parameter for what the caller passed.
SaveParam(arg) == arg = "true"

ShutdownArgsNoSave(save) == <<"SHUTDOWN", "NOSAVE">>

\* stop(): the arguments of sendCommand.
ShutdownArgs(save) ==
  IF save THEN <<"SHUTDOWN", "SAVE">> ELSE <<"SHUTDOWN", "NOSAVE">>

\* stop() from its call to its first await.  Without a live handle it goes
\* straight to cleanupFiles(); else it opens the connection of sendCommand.
\* arg is what the caller passed: "true", "false" or "omitted".
StopBegin(i, arg) ==
  /\ stopCtx' = [stopCtx EXCEPT ![i] =
       IF \E a \in Children : ~StartSettled(a) THEN "mixed"
       ELSE IF quietStop THEN "repeat" ELSE "fresh"]
  /\ IF NoLiveHandle
       THEN /\ stopPc' = [stopPc EXCEPT ![i] = CleanupPc]
            /\ cfgFiles' = CfgAfterCleanup
            /\ stopSave' = [stopSave EXCEPT ![i] = NoCommand]
            /\ stopRung' = [stopRung EXCEPT ![i] = "none"]
       ELSE /\ stopPc' = [stopPc EXCEPT ![i] = "command"]
            /\ cfgFiles' = cfgFiles
            /\ stopSave' = [stopSave EXCEPT ![i] =
                 [arg |-> arg, cmd |-> ShutdownArgs(SaveParam(arg))]]
            /\ stopRung' = [stopRung EXCEPT ![i] = "cmd"]

\* The caller calls stop(save).  The caller's calls are interchangeable: a
\* call takes the lowest free slot.
StopCall(i) ==
  /\ ParentLive
  /\ stopPc[i] = "idle"
  /\ \A j \in CallerStops : j < i => stopPc[j] # "idle"
  /\ \E arg \in {"true", "false", "omitted"} : StopBegin(i, arg)
  /\ UNCHANGED <<apartVars, removedFile, sockFile, smVars, startVars,
                 childVars,
                 stopOn, quietStop, regVars>>

\* waitForExit(ms) as called by stop(): it resolves at once without a live
\* handle (stop() goes on to cleanupFiles), else arms the timer and listens
\* once for 'exit' on the current this.process.
WaitForExit(i, waitPc) ==
  IF NoLiveHandle
    THEN /\ stopPc' = [stopPc EXCEPT ![i] = CleanupPc]
         /\ stopOn' = [stopOn EXCEPT ![i] = 0]
         /\ cfgFiles' = CfgAfterCleanup
    ELSE /\ stopPc' = [stopPc EXCEPT ![i] = waitPc]
         /\ stopOn' = [stopOn EXCEPT ![i] = process]
         /\ cfgFiles' = cfgFiles

\* sendCommand('SHUTDOWN', ...) settles: resolved on data or close, rejected
\* on error or on the 3 000 ms timeout.  Then waitForExit(5_000).
StopCommandSettled(i) ==
  /\ ParentLive
  /\ stopPc[i] = "command"
  /\ \E outcome \in {"resolved", "rejected"} :
       IF CommandThrows(outcome)
         THEN /\ stopPc' = [stopPc EXCEPT ![i] = "rejected"]
              /\ UNCHANGED <<stopOn, cfgFiles>>
         ELSE WaitForExit(i, "wait5000")
  /\ stopSave' = [stopSave EXCEPT ![i] = NoCommand]
  /\ UNCHANGED <<apartVars, removedFile, sockFile, smVars, startVars,
                 childVars,
                 stopRung, stopCtx, quietStop, regVars>>

FirstSignalKill == "kill"

\* stop(): the signal sent when waitForExit(5_000) timed out is SIGTERM.
FirstSignal == "term"

\* The timer of a waitForExit fires (resolve(false)): stop() escalates.
\* SIGTERM leaves the child free to exit, to die of it or to ignore it (see
\* ChildExit); SIGKILL ends it.  Both go to the current this.process.
StopTimer(i) ==
  /\ ParentLive
  /\ Waiting(i)
  /\ IF stopPc[i] = "wait5000"
       THEN /\ WaitForExit(i, "wait3000")
            /\ stopRung' = [stopRung EXCEPT ![i] = FirstSignal]
            /\ child' = IF FirstSignal = "kill"
                          THEN ChildAfterKill(child, process) ELSE child
     ELSE IF stopPc[i] = "wait3000"
       THEN /\ WaitForExit(i, "wait2000")
            /\ stopRung' = [stopRung EXCEPT ![i] = "kill"]
            /\ child' = ChildAfterKill(child, process)
     ELSE /\ stopPc' = [stopPc EXCEPT ![i] = CleanupPc]
          /\ stopOn' = [stopOn EXCEPT ![i] = 0]
          /\ cfgFiles' = CfgAfterCleanup
          /\ UNCHANGED <<stopRung, child>>
  /\ UNCHANGED <<apartVars, removedFile, sockFile, smVars, startVars,
                 exitCode,
                 signalCode, stopSave, stopCtx, quietStop, regVars>>

\* cleanupFiles() of stop() completes (the socket unlink);
\* unregisterServer(this); stop() returns.
StopCleanupDone(i) ==
  /\ ParentLive
  /\ stopPc[i] = "cleanup"
  /\ sockFile' = Absent
  /\ IF CleanupUnlinkResult(sockFile # Absent) = "throws"
       THEN /\ stopPc' = [stopPc EXCEPT ![i] = "rejected"]
            /\ activeServers' = activeServers
       ELSE /\ stopPc' = [stopPc EXCEPT ![i] = "done"]
            /\ activeServers' = UnregisterServer
  /\ quietStop' = (quietStop \/ stopCtx[i] # "mixed")
  /\ UNCHANGED <<apartVars, removedFile, cfgFiles, smVars, startVars,
                 childVars, stopOn,
                 stopSave, stopRung, stopCtx, handlersRegistered, installs,
                 parent, attempted, sigVars>>

\* The caller has seen stop() settle; the call is over.
StopReturn(i) ==
  /\ ParentLive
  /\ i \in CallerStops
  /\ stopPc[i] \in {"done", "rejected"}
  /\ stopPc' = [stopPc EXCEPT ![i] = "idle"]
  /\ stopRung' = [stopRung EXCEPT ![i] = "none"]
  /\ stopCtx' = [stopCtx EXCEPT ![i] = "none"]
  /\ UNCHANGED <<apartVars, removedFile, fsVars, smVars, startVars,
                 childVars, stopOn,
                 stopSave, quietStop, regVars>>

----------------------------------------------------------------------------
(* The cleanup registry *)

\* stop() of the second instance from its call to its first await: without
\* a live handle straight to cleanupFiles(), else the ladder.  A call made
\* while an earlier stop() of it is under way ends when that one does.
PeerStopped ==
  IF peer.pc # "resolved" THEN peer
  ELSE IF PeerIsRunning THEN [peer EXCEPT !.pc = "stopping"]
  ELSE [peer EXCEPT !.pc = "cleanup", !.cfg = FALSE]

SyncSweepTargetsFirstOnly ==
  IF Self \in activeServers /\ GetPid # 0 /\ IsRunning THEN {process} ELSE {}

\* stopAllSync(): the pids process.kill(pid, 'SIGTERM') is called with: that
\* of every registered server with a defined getPid() and a true isRunning().
SyncSweepTargets ==
  (IF Self \in activeServers /\ GetPid # 0 /\ IsRunning THEN {process} ELSE {})
    \cup (IF Peer \in activeServers /\ PeerIsRunning THEN {PeerPid} ELSE {})

\* process.kill(pid, ...) throws ESRCH when no process has the pid: the child
\* has ended and the parent has reaped it (its exit was reported).
NoSuchProcess(t) ==
  IF t = PeerPid THEN peer.child = "dead" ELSE Dead(t) /\ ~Undelivered(t)

SweepErrorNoCatch(killFails) == IF killFails THEN "ESRCH" ELSE "none"

\* stopAllSync(): the try/catch around process.kill swallows its error; the
\* value is the error that leaves stopAllSync.
SweepError(killFails) == "none"

\* stopAllSync(): the loop over activeServers, then activeServers.clear().
StopAllSync ==
  /\ attempted' = attempted \cup SyncSweepTargets
  /\ activeServers' =
       IF SweepError(\E t \in SyncSweepTargets : NoSuchProcess(t)) = "none"
         THEN {} ELSE activeServers

UncaughtThrowsNothing(err, sweepErr) == "none"

\* The 'uncaughtException' listener: stopAllSync(); throw err.  The value is
\* the error that leaves the listener.
UncaughtThrows(err, sweepErr) == IF sweepErr # "none" THEN sweepErr ELSE err

\* The parent ends by process.exit() / an empty loop ("exited": the 'exit'
\* listener runs) or by an uncaught exception ("crashed": the
\* 'uncaughtException' listener runs).  Both run stopAllSync(), if the
\* listeners were ever installed.
ParentEnds ==
  /\ ParentLive
  /\ \E how \in {"exited", "crashed"} :
       /\ parent' = how
       /\ IF handlersRegistered
            THEN /\ StopAllSync
                 /\ thrown' =
                      IF how = "crashed"
                        THEN UncaughtThrows("err",
                               SweepError(\E t \in SyncSweepTargets : NoSuchProcess(t)))
                        ELSE thrown
            ELSE UNCHANGED <<attempted, activeServers, thrown>>
  /\ UNCHANGED <<apartVars, removedFile, fsVars, smVars, startVars,
                 childVars, stopVars, handlersRegistered, installs, caught,
                 raised>>

Signals == {"SIGINT", "SIGTERM"}

SignalRaisedTerm(signal) == "SIGTERM"

\* signalHandler: process.kill(process.pid, signal).
SignalRaised(signal) == signal

\* SIGINT or SIGTERM reaches the parent.  Without installed listeners it dies
\* at once.  With them signalHandler runs stopAllAsync(): stop() is called on
\* every registered server (slot 0 for the first instance); with none
\* registered the set is cleared and the signal is re-raised straight away.
ParentSignal ==
  /\ parent = "running"
  /\ \E signal \in Signals :
       IF ~handlersRegistered
         THEN /\ parent' = "killed"
              /\ UNCHANGED <<stopVars, cfgFiles, attempted, peer, caught, raised>>
         ELSE /\ caught' = signal
              /\ IF Self \in activeServers
                   THEN /\ StopBegin(0, "omitted")
                        /\ UNCHANGED <<stopOn, quietStop>>
                   ELSE UNCHANGED <<stopVars, cfgFiles>>
              /\ peer' = IF Peer \in activeServers
                           THEN [PeerStopped EXCEPT !.swept = "called"]
                           ELSE peer
              /\ attempted' = attempted
                   \cup (IF Self \in activeServers /\ process # 0
                           THEN {process} ELSE {})
                   \cup (IF Peer \in activeServers THEN {PeerPid} ELSE {})
              /\ IF activeServers = {}
                   THEN /\ parent' = "killed"
                        /\ raised' = SignalRaised(signal)
                   ELSE /\ parent' = "sweeping"
                        /\ raised' = raised
  /\ UNCHANGED <<optVars, dbVars, removedFile, sockFile, smVars,
                 startVars, childVars, activeServers, handlersRegistered,
                 installs, thrown>>

\* stopAllAsync(): all stop() calls have settled; activeServers.clear(); the
\* signal is re-raised and, the once-listener being gone, ends the parent.
SignalHandlerDone ==
  /\ parent = "sweeping"
  /\ stopPc[0] \in {"idle", "done", "rejected"}
  /\ peer.swept # "called"
  /\ activeServers' = {}
  /\ raised' = SignalRaised(caught)
  /\ parent' = "killed"
  /\ UNCHANGED <<apartVars, removedFile, fsVars, smVars, startVars,
                 childVars, stopVars, handlersRegistered, installs, attempted,
                 caught, thrown>>

----------------------------------------------------------------------------
(* A second ServerManager with a socket path and a config file of its own.
   Its fields, its child and its files are its own; what it shares with the
   first is the registry.  Its start() and stop() are the same code, taken in
   larger steps: a start() that gets ready, and a stop() of a ready server. *)

PeerUnchanged ==
  UNCHANGED <<optVars, dbVars, removedFile, fsVars, smVars, startVars,
              childVars, stopVars, parent, attempted, sigVars>>

\* start() up to the race: the config file is written, the child spawned.
\* The caller may start the instance again after a stop() of it has returned.
PeerStart ==
  /\ ParentLive
  /\ peer.pc \in {"idle", "done"}
  /\ peer' = [peer EXCEPT !.pc = "racing", !.child = "alive",
                          !.exitCode = "null", !.cfg = TRUE]
  /\ UNCHANGED <<activeServers, handlersRegistered, installs>>
  /\ PeerUnchanged

\* Its child binds its socket.
PeerListen ==
  /\ ParentLive
  /\ peer.child = "alive"
  /\ peer' = [peer EXCEPT !.child = "listening", !.sock = TRUE]
  /\ UNCHANGED <<activeServers, handlersRegistered, installs>>
  /\ PeerUnchanged

\* Its PING is answered: registerServer(this), start() resolves.
PeerResolves ==
  /\ ParentLive
  /\ peer.pc = "racing" /\ peer.child = "listening"
  /\ peer' = [peer EXCEPT !.pc = "resolved"]
  /\ activeServers' = activeServers \cup {Peer}
  /\ EnsureHandlers
  /\ PeerUnchanged

\* The caller calls stop() on it.
PeerStop ==
  /\ ParentLive
  /\ peer.pc = "resolved"
  /\ peer' = PeerStopped
  /\ UNCHANGED <<activeServers, handlersRegistered, installs>>
  /\ PeerUnchanged

\* Its child ends, on its own or under the ladder (by SIGKILL at the latest),
\* with a status or by a signal; a stop() waiting for it goes on to
\* cleanupFiles().
PeerChildEnds ==
  /\ ParentLive
  /\ peer.pc \in {"resolved", "stopping"}
  /\ peer.child \in {"alive", "listening"}
  /\ \E code \in {"0", "null"} :
       peer' = [peer EXCEPT !.child = "dead", !.exitCode = code,
                            !.pc = IF peer.pc = "stopping" THEN "cleanup" ELSE @,
                            !.cfg = IF peer.pc = "stopping" THEN FALSE ELSE @]
  /\ UNCHANGED <<activeServers, handlersRegistered, installs>>
  /\ PeerUnchanged

\* cleanupFiles() completes; unregisterServer(this); stop() returns.
PeerStopDone ==
  /\ ParentLive
  /\ peer.pc = "cleanup"
  /\ peer' = [peer EXCEPT !.pc = "done", !.sock = FALSE,
                          !.swept = IF @ = "called" THEN "settled" ELSE @]
  /\ activeServers' = activeServers \ {Peer}
  /\ UNCHANGED <<handlersRegistered, installs>>
  /\ PeerUnchanged

PeerStep ==
  \/ PeerStart
  \/ PeerListen
  \/ PeerResolves
  \/ PeerStop
  \/ PeerChildEnds
  \/ PeerStopDone

----------------------------------------------------------------------------
(* FalkorDB (falkordb.ts): open() makes the data directory, starts a
   ServerManager (the first instance of this model, with a config text and no
   configPath) and connects the client; close() closes the client, stops the
   server and removes a data directory of its own.  close() call k uses
   stop() slot k; the stop() of open()'s catch block uses slot 1. *)

DbUnchangedServer ==
  UNCHANGED <<optVars, peer, bm, removedFile, fsVars, smVars, startVars,
              childVars, stopVars, regVars>>

\* What a stop() call made by open() or close() leaves as it is.
DbUnchangedByStop ==
  UNCHANGED <<optVars, peer, bm, removedFile, sockFile, smVars,
              startVars, childVars, stopOn, quietStop, regVars>>

\* open(): if (opts.path).
PathGiven(path) == path = "given"

\* FalkorDB.open(options) is called: await bm.ensureBinaries().
DbOpenCall ==
  /\ ParentLive
  /\ db.pc = "idle"
  /\ db' = [db EXCEPT !.pc = "binaries"]
  /\ UNCHANGED closePc
  /\ DbUnchangedServer

\* ensureBinaries() settles; then await mkdir(dbDir) resp. mkdtemp(...).
DbBinaries ==
  /\ ParentLive
  /\ db.pc = "binaries"
  /\ \E found \in BOOLEAN :
       db' = IF found THEN [db EXCEPT !.pc = "mkdir"]
                      ELSE [db EXCEPT !.pc = "rejected", !.err = "binaries"]
  /\ UNCHANGED closePc
  /\ DbUnchangedServer

\* mkdir / mkdtemp settles; the config is generated (the constructor of
\* ConfigGenerator throws when the socket path is too long) and the
\* ServerManager is made.
DbDirMade ==
  /\ ParentLive
  /\ db.pc = "mkdir"
  /\ \E outcome \in {"made", "fails", "configThrows"} :
       db' = CASE outcome = "made" ->
                    [db EXCEPT !.pc = "starting", !.dataDir = "present",
                               !.ownsTempDir = ~PathGiven(db.path)]
               [] outcome = "fails" ->
                    [db EXCEPT !.pc = "rejected", !.err = "mkdir"]
               [] OTHER ->
                    [db EXCEPT !.pc = "rejected", !.err = "config",
                               !.dataDir = "present",
                               !.ownsTempDir = ~PathGiven(db.path)]
  /\ UNCHANGED closePc
  /\ DbUnchangedServer

\* open(): await server.start().
DbServerStart ==
  /\ db.pc = "starting"
  /\ nStarts = 0
  /\ StartCall(1)

\* server.start() has settled: open() rejects with its error, or goes on to
\* await FalkorDBClient.connect(...).
DbStartSettled ==
  /\ ParentLive
  /\ db.pc = "starting"
  /\ nStarts = 1
  /\ startPc[1] \in {"resolved", "rejected"}
  /\ db' = IF startPc[1] = "resolved"
             THEN [db EXCEPT !.pc = "connecting"]
             ELSE [db EXCEPT !.pc = "rejected", !.err = startErr[1]]
  /\ UNCHANGED closePc
  /\ DbUnchangedServer

OpenCatchOnlyThrows == FALSE

\* open(): the catch block around FalkorDBClient.connect tears down the
\* server before it rethrows.
OpenCatchStops == TRUE

\* FalkorDBClient.connect settles: the instance is made, or the catch block
\* begins: await server.stop().
DbConnected ==
  /\ ParentLive
  /\ db.pc = "connecting"
  /\ \E connected \in BOOLEAN :
       IF connected
         THEN /\ db' = [db EXCEPT !.pc = "open", !.client = "open"]
              /\ UNCHANGED <<stopPc, stopSave, stopRung, stopCtx, cfgFiles>>
       ELSE IF OpenCatchStops
         THEN /\ db' = [db EXCEPT !.pc = "unwinding", !.err = "connect"]
              /\ StopBegin(1, "omitted")
       ELSE /\ db' = [db EXCEPT !.pc = "rejected", !.err = "connect"]
            /\ UNCHANGED <<stopPc, stopSave, stopRung, stopCtx, cfgFiles>>
  /\ UNCHANGED closePc
  /\ DbUnchangedByStop

\* The stop() of open()'s catch block has settled: rm of a data directory of
\* its own, then throw err.
DbUnwound ==
  /\ ParentLive
  /\ db.pc = "unwinding"
  /\ stopPc[1] \in {"done", "rejected"}
  /\ db' = IF stopPc[1] = "rejected"
             THEN [db EXCEPT !.pc = "rejected", !.err = "stop"]
           ELSE IF db.ownsTempDir THEN [db EXCEPT !.pc = "unwindRm"]
           ELSE [db EXCEPT !.pc = "rejected"]
  /\ UNCHANGED closePc
  /\ DbUnchangedServer

\* rm(dbDir, { recursive, force }).catch(() => {}) settles; open() rejects.
DbUnwindRm ==
  /\ ParentLive
  /\ db.pc = "unwindRm"
  /\ db' = [db EXCEPT !.pc = "rejected", !.dataDir = "absent"]
  /\ UNCHANGED closePc
  /\ DbUnchangedServer

\* close() is called on the instance: await this.client.close().  The
\* caller's calls are interchangeable: a call takes the lowest free slot.
DbCloseCall(k) ==
  /\ ParentLive
  /\ db.pc = "open"
  /\ closePc[k] = "idle"
  /\ \A j \in CallerStops : j < k => closePc[j] # "idle"
  /\ closePc' = [closePc EXCEPT ![k] = "client"]
  /\ UNCHANGED db
  /\ DbUnchangedServer

ClientCloseThrowsOnReject(outcome) == outcome = "rejected"

\* close(): the try/catch around client.close() swallows its rejection.
ClientCloseThrows(outcome) == FALSE

CloseSaveArgNever(ownsTempDir) == "false"

\* close(): this.server.stop(!this.ownsTempDir).
CloseSaveArg(ownsTempDir) == IF ownsTempDir THEN "false" ELSE "true"

\* client.close() settles (it rejects when the client is disconnected
\* already); then await this.server.stop(...).
DbClientClosed(k) ==
  /\ ParentLive
  /\ closePc[k] = "client"
  /\ db' = [db EXCEPT !.client = "closed"]
  /\ \E outcome \in {"resolved", "rejected"} :
       IF ClientCloseThrows(outcome)
         THEN /\ closePc' = [closePc EXCEPT ![k] = "rejected"]
              /\ UNCHANGED <<stopPc, stopSave, stopRung, stopCtx, cfgFiles>>
         ELSE /\ closePc' = [closePc EXCEPT ![k] = "stop"]
              /\ StopBegin(k, CloseSaveArg(db.ownsTempDir))
  /\ DbUnchangedByStop

\* The stop() of close() has settled: rm of a data directory of its own.
DbStopSettled(k) ==
  /\ ParentLive
  /\ closePc[k] = "stop"
  /\ stopPc[k] \in {"done", "rejected"}
  /\ closePc' = [closePc EXCEPT ![k] =
       IF stopPc[k] = "rejected" THEN "rejected"
       ELSE IF db.ownsTempDir THEN "rm" ELSE "done"]
  /\ UNCHANGED db
  /\ DbUnchangedServer

\* rm(dbDir, { recursive, force }).catch(() => {}) settles; close() returns.
DbRmDone(k) ==
  /\ ParentLive
  /\ closePc[k] = "rm"
  /\ db' = [db EXCEPT !.dataDir = "absent"]
  /\ closePc' = [closePc EXCEPT ![k] = "done"]
  /\ DbUnchangedServer

----------------------------------------------------------------------------
(* BinaryManager (binary-manager.ts) *)

\* The candidates after the user's path, in the order they are tried: each
\* is there when its path can be formed and existsSync finds the file (for
\* the system PATH: when `which` prints a path).
LocalFound(b) == b.platformOk /\ b.local
NpmFound(b) == b.platformOk /\ b.pkg /\ b.npm
SystemFound(b) == b.system

\* if (this.userRedisServerPath): undefined and '' are falsy.
UserPathGiven(b) == b.user \notin {"undefined", "empty"}

ResolveRedisServerFallsBack(b) ==
  IF UserPathGiven(b) /\ b.user = "present" THEN "user"
  ELSE IF LocalFound(b) THEN "local"
  ELSE IF NpmFound(b) THEN "npm"
  ELSE IF SystemFound(b) THEN "system"
  ELSE "notFound"

\* resolveRedisServer(): the path it returns ("user", "local", "npm",
\* "system") or the error it throws ("notFoundAt", "notFound").
ResolveRedisServer(b) ==
  IF UserPathGiven(b)
    THEN IF b.user = "missing" THEN "notFoundAt" ELSE "user"
  ELSE IF LocalFound(b) THEN "local"
  ELSE IF NpmFound(b) THEN "npm"
  ELSE IF SystemFound(b) THEN "system"
  ELSE "notFound"

\* getRedisServerPath() is called.
BmResolve ==
  /\ bm.result = "none"
  /\ bm' = [bm EXCEPT !.result = ResolveRedisServer(bm)]
  /\ UNCHANGED <<optVars, peer, db, closePc, removedFile, fsVars,
                 smVars, startVars, childVars, stopVars, regVars>>

----------------------------------------------------------------------------
(* Completions of file operations, timers, socket and child-process events. *)
Events ==
  \/ \E a \in Children : StartUnlinked(a)
  \/ \E a \in Children : StartMkdtemp(a)
  \/ \E a \in Children : StartWritten(a)
  \/ \E a \in Children : StartCleanupDone(a)
  \/ \E c \in Children : ChildListen(c)
  \/ \E c \in Children : ChildExit(c)
  \/ \E c \in Children : ChildEvent(c)
  \/ \E a \in Children : PingData(a)
  \/ \E a \in Children : PingFail(a)
  \/ \E a \in Children : PingClosed(a)
  \/ \E a \in Children : DeadlinePass(a)
  \/ \E a \in Children : PollTimer(a)
  \/ \E i \in Stops : StopCommandSettled(i)
  \/ \E i \in Stops : StopTimer(i)
  \/ \E i \in Stops : StopCleanupDone(i)

(* Everything but the caller's calls and the end of the parent. *)
Progress ==
  \/ Events
  \/ \E i \in Stops : StopReturn(i)

(* Scenario 1: up to MaxSpawns start() calls in sequence, and stop() calls
   that do not overlap each other but may overlap a start(). *)
Next ==
  \/ StartCall(MaxSpawns)
  \/ StopCall(1)
  \/ Progress

Spec == Init /\ [][Next]_vars

(* Scenario 2: one start() call, and up to MaxStops overlapping stop() calls. *)
NextStops ==
  \/ StartCall(1)
  \/ \E i \in CallerStops : StopCall(i)
  \/ Progress

SpecStops == Init /\ [][NextStops]_vars

(* Scenario 3: one start() call, stop() calls one at a time, and the end of
   the parent process with the registry's handlers. *)
NextExit ==
  \/ StartCall(1)
  \/ StopCall(1)
  \/ ParentEnds
  \/ ParentSignal
  \/ SignalHandlerDone
  \/ Progress

SpecExit == Init /\ [][NextExit]_vars

(* Scenario 4: scenario 1 with a single start() call, under the fairness the
   event loop gives: a pending file operation completes, an armed timer
   fires, a reported child exit is delivered, the clock passes the deadline,
   and a ping in flight gets some end of its connection (data, error, timeout
   or close).  The caller and the child are under no such obligation. *)
NextLive ==
  \/ StartCall(1)
  \/ StopCall(1)
  \/ Progress

PingSettles(a) == PingData(a) \/ PingFail(a) \/ PingClosed(a)

Fairness ==
  /\ \A a \in Children :
       /\ WF_vars(StartUnlinked(a))
       /\ WF_vars(StartMkdtemp(a))
       /\ WF_vars(StartWritten(a))
       /\ WF_vars(StartCleanupDone(a))
       /\ WF_vars(DeadlinePass(a))
       /\ WF_vars(PollTimer(a))
       /\ WF_vars(PingSettles(a))
       /\ WF_vars(ChildEvent(a))
  /\ \A i \in Stops :
       /\ WF_vars(StopCommandSettled(i))
       /\ WF_vars(StopTimer(i))
       /\ WF_vars(StopCleanupDone(i))

SpecLive == Init /\ [][NextLive]_vars /\ Fairness

(* Scenario 5: two supervisors side by side: one start() and stop() calls one
   at a time on the first, a start() and a stop() on the second. *)
NextPair ==
  \/ StartCall(1)
  \/ StopCall(1)
  \/ Progress
  \/ PeerStep

SpecPair == Init /\ [][NextPair]_vars

(* Scenario 6: two supervisors and the end of the parent process: a start()
   on the first, start() and stop() calls on the second, and the registry's
   listeners; the only stop() of the first is the signal handler's. *)
NextSweep ==
  \/ StartCall(1)
  \/ ParentEnds
  \/ ParentSignal
  \/ SignalHandlerDone
  \/ Events
  \/ PeerStep

SpecSweep == Init /\ [][NextSweep]_vars

(* Scenario 10: the request a round trip writes, byte by byte, for every
   list of up to MaxArgs arguments of up to MaxLen characters that take one
   or three bytes in UTF-8. *)
InitWire ==
  /\ InitServer
  /\ ~optConfigPath
  /\ sockFile = Absent
  /\ db = DbIdle("omitted")
  /\ bm = BmIdle("undefined", TRUE, TRUE, TRUE, TRUE, TRUE)
  /\ dl = NoDownload(0, 302, 200)
  /\ written = <<>>
  /\ LET Strings == UNION {[1..n -> {"A", "U+20AC"}] : n \in 0..MaxLen}
     IN args \in UNION {[1..k -> Strings] : k \in 0..MaxArgs}

NextWire == SendCommandConnect \/ PingConnect

SpecWire == InitWire /\ [][NextWire]_vars

(* Scenario 11: one downloadFile(url, destPath) call for every chain of up to
   MaxServers redirects, every redirect status the code follows, and a last
   response that is 200, 404, or a 302 without a location header. *)
InitDownload ==
  /\ InitServer
  /\ ~optConfigPath
  /\ sockFile = Absent
  /\ db = DbIdle("omitted")
  /\ bm = BmIdle("undefined", TRUE, TRUE, TRUE, TRUE, TRUE)
  /\ args = <<>>
  /\ written = <<>>
  /\ dl \in {NoDownload(servers, redirect, last) :
               servers \in 0..MaxServers, redirect \in {301, 302, 307, 308},
               last \in {200, 404, 302}}

NextDownload ==
  \/ DownloadCall
  \/ DownloadResponse
  \/ DownloadFinish
  \/ DownloadError

SpecDownload == InitDownload /\ [][NextDownload]_vars

(* Scenario 9: one start() call on its own, with what the child writes to
   its stderr. *)
NextErr ==
  \/ StartCall(1)
  \/ \E c \in Children : StderrData(c)
  \/ \E a \in Children : StartUnlinked(a)
  \/ \E a \in Children : StartMkdtemp(a)
  \/ \E a \in Children : StartWritten(a)
  \/ \E a \in Children : StartCleanupDone(a)
  \/ \E c \in Children : ChildListen(c)
  \/ \E c \in Children : ChildExit(c)
  \/ \E c \in Children : ChildEvent(c)
  \/ \E a \in Children : PingData(a)
  \/ \E a \in Children : PingFail(a)
  \/ \E a \in Children : PingClosed(a)
  \/ \E a \in Children : DeadlinePass(a)
  \/ \E a \in Children : PollTimer(a)

SpecErr == Init /\ [][NextErr]_vars

(* Scenario 7: a FalkorDB instance: one open(), with or without a path, and
   up to MaxStops close() calls that may overlap.  The ServerManager is
   given a config text (no configPath) and a socket path with a fresh random
   name inside the data directory: no file is at that path, so of the events
   of the ServerManager all but the removal of a stale socket file occur. *)
InitDb ==
  /\ InitServer
  /\ IoIdle
  /\ ~optConfigPath
  /\ sockFile = Absent
  /\ db \in {DbIdle(path) : path \in {"given", "omitted"}}
  /\ bm = BmIdle("undefined", TRUE, TRUE, TRUE, TRUE, TRUE)

NextDb ==
  \/ DbOpenCall
  \/ DbBinaries
  \/ DbDirMade
  \/ DbServerStart
  \/ DbStartSettled
  \/ DbConnected
  \/ DbUnwound
  \/ DbUnwindRm
  \/ \E k \in CallerStops : DbCloseCall(k)
  \/ \E k \in CallerStops : DbClientClosed(k)
  \/ \E k \in CallerStops : DbStopSettled(k)
  \/ \E k \in CallerStops : DbRmDone(k)
  \/ \E a \in Children : StartMkdtemp(a)
  \/ \E a \in Children : StartWritten(a)
  \/ \E a \in Children : StartCleanupDone(a)
  \/ \E c \in Children : ChildListen(c)
  \/ \E c \in Children : ChildExit(c)
  \/ \E c \in Children : ChildEvent(c)
  \/ \E a \in Children : PingData(a)
  \/ \E a \in Children : PingFail(a)
  \/ \E a \in Children : PingClosed(a)
  \/ \E a \in Children : DeadlinePass(a)
  \/ \E a \in Children : PollTimer(a)
  \/ \E i \in Stops : StopCommandSettled(i)
  \/ \E i \in Stops : StopTimer(i)
  \/ \E i \in Stops : StopCleanupDone(i)

SpecDb == InitDb /\ [][NextDb]_vars

(* Scenario 8: resolveRedisServer() on every combination of what it can find. *)
InitResolve ==
  /\ InitServer
  /\ IoIdle
  /\ ~optConfigPath
  /\ sockFile = Absent
  /\ db = DbIdle("omitted")
  /\ bm \in {BmIdle(user, platformOk, local, pkg, npm, system) :
              user \in {"undefined", "empty", "present", "missing"},
              platformOk \in BOOLEAN, local \in BOOLEAN, pkg \in BOOLEAN,
              npm \in BOOLEAN, system \in BOOLEAN}

NextResolve == BmResolve

SpecResolve == InitResolve /\ [][NextResolve]_vars

----------------------------------------------------------------------------
(* Steps and states the claims speak of *)

\* start() call a resolves in this step.
StartResolves(a) == startPc[a] # "resolved" /\ startPc'[a] = "resolved"

\* stop() call i returns (resolves) in this step.
StopReturns(i) == stopPc[i] # "done" /\ stopPc'[i] = "done"

\* The children of the supervisor that run.
LiveChildren == {c \in Children : Alive(c)}

\* The config files the supervisor made itself (mkdtemp) that still exist.
OwnedConfigFiles == {f \in cfgFiles : f[1] = "tmp"}

----------------------------------------------------------------------------
(* C1: whenever start() resolves, isRunning() is true and getPid() is defined
   in the state start() returns in. *)
C1_StartResolvesRunning ==
  [][\A a \in Children : StartResolves(a) => (IsRunning' /\ GetPid' # 0)]_vars

C1_Witness ==
  \E a \in Children : startPc[a] = "resolved" /\ process = a /\ IsRunning /\ GetPid = a

(* C2: after stop() returns isRunning() is false, for every way the child
   ended during the stop.  Stated for the case the claim names last: a stop()
   that overlapped no start(), went up the ladder to SIGKILL, and returns
   after the parent was told of the child's end. *)
C2_StopReturnsNotRunning ==
  [][\A i \in Stops :
       (/\ StopReturns(i)
        /\ stopCtx[i] = "fresh"
        /\ stopRung[i] = "kill"
        /\ process # 0 /\ ~Undelivered(process))
       => ~IsRunning']_vars

(* C3: once a stop() call has returned, no child of the supervisor is alive,
   no config file the supervisor made exists and the socket file is gone.
   Stated for the stop() calls that overlap no start(). *)
C3_StopLeavesNothing ==
  [][\A i \in Stops : (StopReturns(i) /\ stopCtx[i] # "mixed") =>
       (LiveChildren = {} /\ OwnedConfigFiles = {} /\ sockFile = Absent)']_vars

(* C4: at most one child spawned by the supervisor is alive at any time. *)
C4_AtMostOneChild == Cardinality(LiveChildren) <= 1

(* C5: when the parent process has ended, every child that is still alive
   was sent a termination signal, or stopped, by the registry's handlers. *)
C5_NoChildWithoutAttempt ==
  ~ParentLive => \A c \in Children : Alive(c) => c \in attempted

\* What a stop() leaves behind: the child of the current handle is not
\* alive, the socket file and the owned config file are gone, and the
\* supervisor is not registered.
StoppedState ==
  /\ process # 0 => ~Alive(process)
  /\ sockFile = Absent
  /\ CleanupUnlinksConfig => configFilePath \notin cfgFiles
  /\ Self \notin activeServers

(* C6: stop() calls that overlap each other all resolve, and each returns in
   the state a single stop() returns in (StoppedState). *)
C6_OverlappingStopsConverge ==
  [][\A i \in Stops :
       /\ stopPc'[i] # "rejected"
       /\ (StopReturns(i) /\ stopCtx[i] # "mixed") => StoppedState']_vars

C6_Witness ==
  /\ stopPc[1] = "done" /\ stopCtx[1] # "mixed" /\ stopRung[1] # "none"
  /\ StopInFlight(2) /\ stopCtx[2] # "mixed"

(* C7: a stop() made after an earlier stop() has completed resolves, and no
   step of it changes the children, the files or the registry; it returns in
   StoppedState. *)
C7_RepeatedStopChangesNothing ==
  [][\A i \in Stops :
       (stopCtx'[i] = "repeat" /\ stopPc'[i] # stopPc[i]) =>
         /\ stopPc'[i] # "rejected"
         /\ UNCHANGED <<sockFile, cfgFiles, activeServers, child, process>>
         /\ StoppedState']_vars

C7_Witness ==
  \E i \in Stops : stopPc[i] = "done" /\ stopCtx[i] = "repeat" /\ process # 0

(* C8: stop() never rejects. *)
C8_StopNeverRejects == \A i \in Stops : stopPc[i] # "rejected"

C8_Witness ==
  \E i \in Stops : stopPc[i] = "done" /\ stopRung[i] = "kill"

(* C9: a stop() called while start() has not settled is rejected or deferred:
   the call runs none of stop()'s steps while start() is in flight. *)
C9_StopDuringStartHeldBack ==
  [][\A i \in Stops :
       (/\ \E a \in Children : ~StartSettled(a)
        /\ stopPc[i] = "idle" /\ stopPc'[i] # "idle")
       => stopPc'[i] \in {"rejected", "deferred"}]_vars

(* C10: every start() call eventually settles (resolves or rejects). *)
C10_StartSettles ==
  \A a \in Children : (~StartSettled(a)) ~> (startPc[a] \in {"resolved", "rejected"})

\* start() call a rejects in this step.
StartRejects(a) == startPc[a] # "rejected" /\ startPc'[a] = "rejected"

\* No start() call before call a resolved: the supervisor has no child and no
\* registry entry from an earlier start().
NoEarlierSuccess(a) == \A b \in Children : b < a => startPc[b] # "resolved"

(* C11: a start() whose spawn failed rejects with the 'Failed to spawn' error,
   and when it has rejected no child of the supervisor is alive and the
   supervisor is not registered (for a supervisor no earlier start() of which
   succeeded). *)
C11_SpawnFailureRejects ==
  [][\A a \in Children :
       (StartRejects(a) /\ child[a] = "spawnfail") =>
         /\ startErr'[a] = "spawn"
         /\ NoEarlierSuccess(a) => (LiveChildren' = {} /\ Self \notin activeServers')]_vars

C11_Witness ==
  \E a \in Children :
    /\ startPc[a] = "rejected" /\ child[a] = "spawnfail" /\ startErr[a] = "spawn"
    /\ NoEarlierSuccess(a) /\ LiveChildren = {} /\ Self \notin activeServers

\* start() call a loses the race in this step: its catch block begins.
RaceLost(a) == startPc[a] \in {"writing", "racing"} /\ startPc'[a] = "cleanup"

\* The error of the branch that settles in this step: the poller's when
\* waitForReady rejects, else that of the child's 'error' or 'exit' event.
BranchError(a) ==
  IF ready[a] # "rejected" /\ ready'[a] = "rejected" THEN "timeout"
  ELSE IF child'[a] = "spawnfail" THEN "spawn"
  ELSE EarlyExitError(exitCode'[a], signalCode'[a])

(* C12: when start() loses the race, after that step its child is not alive
   (it had exited or was sent SIGKILL), the config file it made itself is
   gone and the error is that of the branch that settled in the step; when
   start() then rejects, the socket file is gone too and the error is still
   the same. *)
C12_FailedStartCleansUp ==
  [][\A a \in Children :
       /\ RaceLost(a) =>
            /\ ~Alive(a)'
            /\ TmpPath(a) \notin cfgFiles'
            /\ startErr'[a] = BranchError(a)
       /\ (StartRejects(a) /\ startPc[a] = "cleanup") =>
            /\ ~Alive(a)'
            /\ TmpPath(a) \notin cfgFiles'
            /\ sockFile' = Absent
            /\ startErr'[a] = startErr[a]
            /\ startErr[a] \in {"spawn", "exited", "killed", "timeout"}]_vars

C12_Witness ==
  \E a \in Children :
    /\ startPc[a] = "rejected" /\ startErr[a] = "timeout"
    /\ child[a] = "signal" /\ ~optConfigPath
    /\ TmpPath(a) \notin cfgFiles /\ sockFile = Absent

(* C13: a failed start() reports the cause that occurred: 'Failed to spawn'
   exactly when the spawn failed, 'exited/killed before becoming ready' only
   when an exit of the child was reported, and 'did not become ready within'
   only when no exit of the child was reported before the deadline. *)
C13_FailureNamesCause ==
  [][\A a \in Children : RaceLost(a) =>
       /\ (startErr'[a] = "spawn") <=> (child'[a] = "spawnfail")
       /\ startErr'[a] \in {"exited", "killed"} => ~Undelivered(a)'
       /\ startErr'[a] = "timeout" => (child[a] # "spawnfail" /\ Undelivered(a))]_vars

(* C14: a file found at the socket path is removed by start() before the
   child is spawned (no file is at the path when spawn is called), and the
   start() that removed it resolves when its readiness check succeeds. *)
C14_StaleSocketRemoved ==
  [][\A a \in Children :
       /\ (startPc[a] = "unlinking" /\ startPc'[a] # "unlinking"
             /\ sockFile # Absent) =>
            (sockFile' = Absent /\ startPc'[a] \in {"mkdtemp", "writing"})
       /\ (child[a] = "none" /\ child'[a] # "none") => sockFile = Absent
       /\ (removedFile /\ startPc[a] = "racing"
             /\ ready[a] # "resolved" /\ ready'[a] = "resolved") =>
            startPc'[a] = "resolved"]_vars

C14_Witness ==
  /\ removedFile /\ nStarts = 1
  /\ startPc[1] = "resolved" /\ sockFile = BoundBy(1) /\ IsRunning

(* C15: two supervisors with socket paths of their own: a step of the second
   leaves the first one's files, fields, child, isRunning() and registry
   membership as they are, a step of the first leaves the second's registry
   membership as it is (its fields, child and files are out of reach), and
   when both run their pids differ. *)
C15_SupervisorsIndependent ==
  [][/\ peer' # peer =>
          /\ UNCHANGED <<sockFile, cfgFiles, smVars, childVars>>
          /\ IsRunning' = IsRunning
          /\ (Self \in activeServers') = (Self \in activeServers)
     /\ peer' = peer => ((Peer \in activeServers') = (Peer \in activeServers))
     /\ (IsRunning /\ PeerIsRunning) => GetPid # PeerPid]_vars

C15_Witness ==
  /\ startPc[1] = "resolved" /\ stopPc[1] = "done" /\ stopRung[1] # "none"
  /\ peer.pc = "resolved" /\ PeerIsRunning /\ peer.sock /\ peer.cfg
  /\ Peer \in activeServers /\ Self \notin activeServers

\* stop() call i calls kill('SIGTERM') resp. kill('SIGKILL') in this step.
TermCalled(i) == stopRung[i] # "term" /\ stopRung'[i] = "term"
KillCalled(i) == stopRung[i] # "kill" /\ stopRung'[i] = "kill"

\* The exit of a child is reported to the parent in this step.
ExitReported == exitCode' # exitCode \/ signalCode' # signalCode

(* C16: the ladder of stop() runs in order and advances only on a timeout:
   SIGTERM only when the command was tried and the 5 000 ms wait timed out,
   SIGKILL only when SIGTERM was sent and the 3 000 ms wait timed out; a
   stop() that the child's exit releases from a wait goes to the cleanup
   without a further signal. *)
C16_LadderInOrder ==
  [][\A i \in Stops :
       /\ TermCalled(i) => (stopRung[i] = "cmd" /\ stopPc[i] = "wait5000")
       /\ KillCalled(i) => (stopRung[i] = "term" /\ stopPc[i] = "wait3000")
       /\ (Waiting(i) /\ ExitReported /\ stopPc'[i] # stopPc[i]) =>
            (stopPc'[i] = "cleanup" /\ stopRung'[i] = stopRung[i])
       /\ (stopPc[i] \in {"cleanup", "done"}) =>
            (~TermCalled(i) /\ ~KillCalled(i))]_vars

C16_Witness ==
  \E i \in Stops :
    /\ stopPc[i] = "done" /\ stopRung[i] = "term" /\ stopCtx[i] = "fresh"
    /\ process # 0 /\ exitCode[process] = "0"

(* C17: a stop() called with no start() in flight, when the supervisor has no
   child or when the exit of its child (by status or by signal) has been
   reported, goes straight to the cleanup: no shutdown command, no wait, no
   signal. *)
C17_StopWithoutChildOnlyCleans ==
  [][\A i \in Stops :
       (/\ stopPc[i] = "idle" /\ stopPc'[i] # "idle"
        /\ \A a \in Children : StartSettled(a)
        /\ (process = 0 \/ ~Undelivered(process)))
       => (stopPc'[i] = "cleanup" /\ stopRung'[i] = "none")]_vars

\* stop() call i is made in this step.
StopCalled(i) == stopPc[i] = "idle" /\ stopPc'[i] # "idle"

(* C18: stop(save) on a child the supervisor holds as running begins with one
   shutdown command: SHUTDOWN SAVE when save is true, SHUTDOWN NOSAVE when it
   is false or omitted; no other step of the call sends a command. *)
C18_FirstActionIsShutdown ==
  [][\A i \in Stops :
       /\ (StopCalled(i) /\ ~NoLiveHandle) =>
            /\ stopPc'[i] = "command" /\ stopRung'[i] = "cmd"
            /\ stopSave'[i].cmd =
                 IF stopSave'[i].arg = "true" THEN <<"SHUTDOWN", "SAVE">>
                                             ELSE <<"SHUTDOWN", "NOSAVE">>
       /\ (stopSave'[i] # NoCommand /\ stopSave'[i] # stopSave[i]) => StopCalled(i)
       /\ stopPc'[i] # "command" => stopSave'[i] = NoCommand]_vars

C18_Witness ==
  \E i \in Stops :
    /\ stopPc[i] = "command" /\ stopSave[i].arg = "true" /\ stopCtx[i] = "fresh"
    /\ stopSave[i].cmd = <<"SHUTDOWN", "SAVE">>
    /\ process # 0 /\ child[process] = "listening"

(* C19: a config file at the caller's configPath, once written, is never
   deleted; a config file the supervisor made itself is gone when a stop()
   (that overlapped no start()) returns and when a start() that lost its race
   rejects. *)
C19_OnlyOwnedConfigDeleted ==
  [][/\ CallerPath \in cfgFiles => CallerPath \in cfgFiles'
     /\ \A i \in Stops :
          (StopReturns(i) /\ stopCtx[i] # "mixed" /\ ~optConfigPath) =>
            configFilePath \notin cfgFiles'
     /\ \A a \in Children :
          (StartRejects(a) /\ startPc[a] = "cleanup" /\ ~optConfigPath) =>
            (configFilePath = TmpPath(a) /\ configFilePath \notin cfgFiles')]_vars

C19_Witness ==
  /\ optConfigPath /\ CallerPath \in cfgFiles /\ ~ownsConfigFile
  /\ startPc[1] = "resolved" /\ stopPc[1] = "done" /\ stopCtx[1] = "fresh"
  /\ stopRung[1] # "none" /\ sockFile = Absent

(* C20: the supervisor is in activeServers only from a successful start() to
   the completion of its next stop() or of a sweep at the end of the parent:
   it is not in the set at first, it enters the set only in a step in which a
   start() resolves, a start() that fails does not put it there, and it is
   out of the set when a stop() returns and when the parent has ended. *)
C20_RegisteredOnlyWhileStarted ==
  /\ Self \notin activeServers
  /\ [][/\ (Self \notin activeServers /\ Self \in activeServers') =>
            \E a \in Children : StartResolves(a)
        /\ \A a \in Children :
             (StartRejects(a) /\ NoEarlierSuccess(a)) => Self \notin activeServers'
        /\ \A i \in Stops : StopReturns(i) => Self \notin activeServers'
        /\ (~ParentLive)' => Self \notin activeServers']_vars

C20_Witness ==
  /\ parent = "killed" /\ stopPc[0] = "done" /\ stopRung[0] # "none"
  /\ startPc[1] = "resolved" /\ Self \notin activeServers

(* C21: the listeners of the registry are installed at most once in the life
   of the process, however many registerServer calls are made: never more
   than one installation, and exactly one once handlersRegistered is set. *)
C21_HandlersInstalledOnce ==
  /\ installs <= 1
  /\ handlersRegistered <=> installs = 1

C21_Witness ==
  /\ startPc[1] = "resolved" /\ stopPc[1] = "done" /\ Self \notin activeServers
  /\ peer.pc = "resolved" /\ Peer \in activeServers
  /\ handlersRegistered /\ installs = 1

\* signalHandler is called in this step.
HandlerCalled == caught = "none" /\ caught' # "none"

\* signalHandler sends the signal to its own process in this step.
SignalReraised == raised = "none" /\ raised' # "none"

(* C22: when SIGINT or SIGTERM is caught, stop() is called in that step on
   every supervisor that is registered; the handler sends a signal to its own
   process only when each of those stop() calls has settled, and the signal
   it sends is the one it caught. *)
C22_SignalStopsThenReraises ==
  [][/\ HandlerCalled =>
          /\ Self \in activeServers => StopCalled(0)
          /\ Peer \in activeServers =>
               (peer'.swept = "called" /\ peer'.pc \in {"stopping", "cleanup"})
     /\ SignalReraised =>
          /\ raised' = caught'
          /\ ~StopInFlight(0)
          /\ peer.swept # "called"]_vars

C22_Witness ==
  /\ parent = "killed" /\ caught = "SIGINT" /\ raised = "SIGINT"
  /\ stopPc[0] = "done" /\ stopRung[0] # "none"
  /\ peer.swept = "settled" /\ peer.pc = "done"

\* The 'exit' listener resp. the 'uncaughtException' listener runs in this
\* step.
ExitListenerRuns == parent # "exited" /\ parent' = "exited" /\ handlersRegistered
UncaughtListenerRuns ==
  parent # "crashed" /\ parent' = "crashed" /\ handlersRegistered

(* C23: in the step in which the 'exit' listener runs, SIGTERM is sent to the
   child of every registered supervisor whose child runs, no stop() is
   called or advanced (nothing is waited for), and the registry is empty
   after the step. *)
C23_ExitSweepsSynchronously ==
  [][ExitListenerRuns =>
       /\ (Self \in activeServers /\ process # 0 /\ Alive(process)) =>
            process \in attempted'
       /\ (Peer \in activeServers /\ peer.child \in {"alive", "listening"}) =>
            PeerPid \in attempted'
       /\ activeServers' = {}
       /\ UNCHANGED <<stopVars, childVars, peer>>]_vars

C23_Witness ==
  /\ parent = "exited" /\ caught = "none" /\ activeServers = {}
  /\ process = 1 /\ child[1] = "listening" /\ peer.child = "listening"
  /\ attempted = {1, PeerPid}

(* C24: in the step in which the 'uncaughtException' listener runs, the
   termination sweep is made over the registered supervisors (the registry is
   empty after it) and the error that leaves the listener is the one it was
   called with, also when a kill of the sweep finds no process. *)
C24_UncaughtRethrowsSame ==
  [][UncaughtListenerRuns =>
       /\ attempted' = attempted \cup SyncSweepTargets
       /\ activeServers' = {}
       /\ thrown' = "err"]_vars

C24_Witness ==
  /\ parent = "crashed" /\ thrown = "err" /\ caught = "none"
  /\ process = 1 /\ 1 \in attempted /\ NoSuchProcess(1)

(* C25: isRunning() is true exactly when the supervisor holds a child handle
   and no exit of that child, by status or by signal, has been recorded. *)
C25_IsRunningIffNoRecordedExit ==
  IsRunning <=> (process # 0 /\ Undelivered(process))

(* C26: getPid() is defined only while the child is live: it is undefined
   when the supervisor has no child handle and when an exit of its child has
   been recorded (as it has been when a stop() that waited for it returned). *)
C26_PidOnlyWhileLive ==
  GetPid # 0 => (process # 0 /\ Undelivered(process))

\* close() call k calls server.stop() resp. returns in this step.
CloseStops(k) == closePc[k] # "stop" /\ closePc'[k] = "stop"
CloseReturns(k) == closePc[k] # "done" /\ closePc'[k] = "done"

(* C27: when close() calls stop() on the server, client.close() has settled
   and the client is closed; for a server held as running the command of that
   stop() is SHUTDOWN SAVE when the instance was opened with a path and
   SHUTDOWN NOSAVE when it was not.  The data directory of an instance is
   removed only without a path, by a close() whose stop() has returned, and
   when close() returns it is gone without a path and still there with one. *)
C27_CloseStopsAsOpened ==
  [][\A k \in CallerStops :
       /\ CloseStops(k) =>
            /\ closePc[k] = "client" /\ db'.client = "closed"
            /\ StopCalled(k)
            /\ ~NoLiveHandle =>
                 stopSave'[k] =
                   IF PathGiven(db.path)
                     THEN [arg |-> "true", cmd |-> <<"SHUTDOWN", "SAVE">>]
                     ELSE [arg |-> "false", cmd |-> <<"SHUTDOWN", "NOSAVE">>]
       /\ (StopCalled(k) /\ db.pc = "open") => CloseStops(k)
       /\ (db.pc = "open" /\ db'.dataDir # db.dataDir) =>
            /\ ~PathGiven(db.path)
            /\ \E j \in CallerStops : closePc[j] = "rm" /\ stopPc[j] = "done"
       /\ CloseReturns(k) =>
            db'.dataDir = (IF PathGiven(db.path) THEN "present" ELSE "absent")]_vars

C27_Witness ==
  /\ db.pc = "open" /\ PathGiven(db.path) /\ db.client = "closed"
  /\ closePc[1] = "stop" /\ stopPc[1] = "command"
  /\ stopSave[1] = [arg |-> "true", cmd |-> <<"SHUTDOWN", "SAVE">>]
  /\ process = 1 /\ child[1] = "listening" /\ db.dataDir = "present"

(* C28: close() calls on one instance, one after the other or overlapping,
   never reject, and whenever one of them returns isRunning() is false. *)
C28_RepeatedCloseResolves ==
  [][\A k \in CallerStops :
       /\ closePc'[k] # "rejected"
       /\ CloseReturns(k) => ~IsRunning']_vars

(* C29: resolveRedisServer() gives the user's path when one is given and
   exists, throws 'not found at' when one is given and does not exist
   (whatever else could be found), and without a user's path gives the first
   of bin/<platform>, the platform package and the system PATH that is there,
   or throws 'not found' when none is. *)
C29_ResolvesInPriorityOrder ==
  bm.result # "none" =>
    /\ bm.user = "present" => bm.result = "user"
    /\ bm.user = "missing" => bm.result = "notFoundAt"
    /\ bm.user \in {"undefined", "empty"} =>
         /\ LocalFound(bm) => bm.result = "local"
         /\ (~LocalFound(bm) /\ NpmFound(bm)) => bm.result = "npm"
         /\ (~LocalFound(bm) /\ ~NpmFound(bm) /\ SystemFound(bm)) =>
              bm.result = "system"
         /\ (~LocalFound(bm) /\ ~NpmFound(bm) /\ ~SystemFound(bm)) =>
              bm.result = "notFound"

C29_Witness ==
  /\ bm.user = "missing" /\ bm.result = "notFoundAt"
  /\ LocalFound(bm) /\ NpmFound(bm) /\ SystemFound(bm)

\* The ping of start() call a receives data, is counted as a success resp.
\* as a failure in this step.
ResponseReceived(a) == reply'[a] # "none" /\ reply'[a] # reply[a]
ProbeSucceeds(a) == ready[a] = "probing" /\ ready'[a] = "resolved"
ProbeFails(a) == ready[a] = "probing" /\ ready'[a] = "sleeping"

(* C30 as stated: a probe is counted as failed only when nothing answered it
   (the connection was refused, nothing listened), and a probe that receives
   any response is counted as a success. *)
C30_AnyResponseSucceeds ==
  [][\A a \in Children :
       /\ ProbeFails(a) => reply[a] = "none"
       /\ ResponseReceived(a) => ProbeSucceeds(a)]_vars

(* C30 amended: a probe is counted as a success only in a step in which it
   receives a response with +PONG; a response without it leaves the probe
   pending, and a probe that ends in an error or in its timeout, also after
   such a response, is counted as failed and is retried. *)
C30_OnlyPongSucceeds ==
  [][\A a \in Children :
       /\ ProbeSucceeds(a) => (reply'[a] = "PONG" /\ ServerAtSocket)
       /\ (ResponseReceived(a) /\ reply'[a] # "PONG") => ready'[a] = "probing"
       /\ (ready[a] = "probing" /\ ready'[a] \notin {"probing", "resolved", "hung"})
            => ProbeFails(a)]_vars

C30_Witness ==
  \E a \in Children :
    /\ ready[a] = "probing" /\ reply[a] = "OTHER" /\ startPc[a] = "racing"
    /\ ServerAtSocket /\ sockFile = BoundBy(a)

----------------------------------------------------------------------------
(* C31 as stated: when no probe has succeeded by the time the deadline of
   waitForReady elapses, start() does not succeed any more: no start() call
   resolves in a step taken after its deadline has passed. *)
C31_NoSuccessAfterDeadline ==
  [][\A a \in Children : StartResolves(a) => ~deadline[a]]_vars

(* C32: a failed health-check probe is never raised to the caller of start():
   a step in which a probe ends without success leaves the start() call where
   it was and its error as it was, and the poller rejects only past the
   deadline, which gives a start() call still in the race the
   readiness-timeout error and no other. *)
C32_ProbeFailureNotRaised ==
  [][\A a \in Children :
       /\ (ready[a] = "probing" /\ ready'[a] \notin {"probing", "resolved"})
            => /\ startPc'[a] = startPc[a]
               /\ startErr'[a] = startErr[a]
               /\ ready'[a] \in {"sleeping", "hung"}
       /\ (ready[a] # "rejected" /\ ready'[a] = "rejected")
            => /\ deadline[a]
               /\ ready[a] = "sleeping"
               /\ startPc[a] = "racing" => startErr'[a] = "timeout"]_vars

C32_Witness ==
  \E a \in Children :
    /\ ready[a] = "rejected"
    /\ startPc[a] = "rejected"
    /\ startErr[a] = "timeout"

(* C33 as stated: once the early-exit watcher has won the race of a start()
   call (spawn error, exit with a status, death by a signal), the poller of
   that call begins no further probe; and once the poller has won, no later
   step, a child exit included, changes the outcome of the call. *)
C33_LoserOfRaceStops ==
  [][\A a \in Children :
       /\ (ready[a] = "sleeping" /\ ready'[a] = "probing")
            => startErr[a] \notin {"spawn", "exited", "killed"}
       /\ startPc[a] = "resolved"
            => (startPc'[a] = "resolved" /\ startErr'[a] = startErr[a])]_vars

(* C34: a start() call spawns its child exactly once, at the end of its
   writeFile; a child is spawned in no other step, so none without a start()
   call of the caller in progress; and a start() call that has rejected stays
   rejected, its child dead. *)
C34_SpawnsOncePerStart ==
  [][\A a \in Children :
       /\ (child'[a] # child[a] /\ child'[a] \in {"alive", "spawnfail"})
            => (child[a] = "none" /\ startPc[a] = "writing" /\ a = nStarts)
       /\ (startPc[a] = "writing" /\ startPc'[a] # "writing")
            => (child[a] = "none" /\ child'[a] # "none")
       /\ startPc[a] = "rejected"
            => (startPc'[a] = "rejected" /\ ~Alive(a)')]_vars

C34_Witness ==
  \E a \in Children :
    /\ startPc[a] = "rejected"
    /\ startErr[a] \in {"exited", "killed", "timeout"}
    /\ Dead(a)
    /\ nStarts = a

(* C35 as stated: every early-exit failure of start(), on an exit with a
   non-zero status and on a death by a signal alike, has in its message the
   stderr text collected up to the step of the failure. *)
C35_EarlyExitCarriesStderr ==
  [][\A a \in Children :
       (startErr'[a] # startErr[a] /\ startErr'[a] \in {"exited", "killed"})
         => MessageStderr(startErr'[a], stderr[a]) = stderr[a]]_vars

(* C36 as stated, the part on termination: every round trip ends.  A ping in
   flight comes to an end (it resolves or rejects, and waitForReady goes on
   from there), and so does the command of every stop() call. *)
C36_EveryRoundTripEnds ==
  /\ \A a \in Children :
       (ready[a] = "probing") ~> (ready[a] \in {"resolved", "sleeping"})
  /\ \A i \in Stops :
       (stopPc[i] = "command") ~> (stopPc[i] # "command")

(* C37: the bytes a round trip writes for the arguments a1..an are '*', n in
   decimal, CR LF, and then for each ai in order '$', the number of bytes of
   ai in decimal, CR LF, the bytes of ai, CR LF; the bytes ping writes are
   those of the single argument PING. *)
C37_RequestIsRespArray ==
  written # <<>> =>
    LET n == Len(args)
        bytes(i) == Utf8Encode(args[i])
        crlf == <<"\r", "\n">>
        upTo[i \in 0..n] ==
          IF i = 0 THEN <<"*">> \o Decimal(n) \o crlf
          ELSE upTo[i - 1] \o <<"$">> \o Decimal(Len(bytes(i))) \o crlf
                           \o bytes(i) \o crlf
    IN written = upTo[n]

C37_Witness ==
  /\ written # <<>>
  /\ Len(args) = MaxArgs
  /\ args[1] = <<"U+20AC", "U+20AC", "U+20AC", "U+20AC">>
  /\ args[2] = <<"A", "U+20AC">>

(* C38: when the client cannot connect to the server open() has started,
   open() calls stop() on that server in the same step, and the step in which
   open() then rejects finds the stop() returned, no child running, the
   supervisor out of the registry and a data directory of open()'s own
   removed; the error open() rejects with is that of the connection. *)
C38_ConnectFailureUnwinds ==
  [][/\ (db.pc = "connecting" /\ db'.pc \notin {"connecting", "open"})
          => (db'.pc = "unwinding" /\ stopPc[1] = "idle" /\ stopPc'[1] # "idle")
     /\ (db.pc \in {"connecting", "unwinding", "unwindRm"} /\ db'.pc = "rejected")
          => /\ db'.err = "connect"
             /\ stopPc[1] = "done"
             /\ \A c \in Children : ~Alive(c)
             /\ Self \notin activeServers
             /\ sockFile = Absent
             /\ db.ownsTempDir => db'.dataDir = "absent"
             /\ db.ownsTempDir = ~PathGiven(db.path)]_vars

C38_Witness ==
  /\ db.pc = "rejected"
  /\ db.err = "connect"
  /\ db.ownsTempDir
  /\ db.dataDir = "absent"
  /\ stopRung[1] = "kill"
  /\ child[1] = "signal"

(* C39 as stated: a downloadFile call that was not ended by a network or
   file error follows at most MAX_REDIRECTS redirects; it downloads the file
   when the chain has up to MAX_REDIRECTS redirects and ends in a 200
   response, and it rejects with 'Too many HTTP redirects' when the chain is
   longer. *)
C39_FollowsUpToMaxRedirects ==
  (dl.pc \in {"resolved", "rejected"} /\ dl.result # "error") =>
    /\ dl.at <= MAX_REDIRECTS
    /\ (dl.servers <= MAX_REDIRECTS /\ dl.last = 200) => dl.result = "downloaded"
    /\ dl.servers > MAX_REDIRECTS => dl.result = "Too many HTTP redirects"

(* C40 as stated: when the signal handler finishes, every supervisor its
   activeServers.clear() removes from the registry is one the handler has
   called stop() on. *)
C40_SweepRemovesOnlyStopped ==
  [][(parent = "sweeping" /\ parent' = "killed") =>
       /\ (Self \in activeServers /\ Self \notin activeServers')
            => stopPc[0] # "idle"
       /\ (Peer \in activeServers /\ Peer \notin activeServers')
            => peer.swept # "no"]_vars

====
